---- MODULE Spec2Model ----
(***************************************************************************)
(* Model of the Update application of cleepmod-update                      *)
(* (src/backend/update.py): the main-action queue and its poller, the      *)
(* sub-action queue and its pollers, the processor slot with its           *)
(* callbacks, the dependency resolver and the three batch planners.        *)
(*                                                                         *)
(* Python lists are sequences kept in their raw storage order: both        *)
(* queues insert at index 0 and pop the last element, so the oldest entry  *)
(* is the last one.  An optional value (None or v) is <<>> or <<v>>.       *)
(*                                                                         *)
(* Not part of the modelled state: the events sent, the process status     *)
(* file, cleep.conf, the restart flag and the Cleep core update.           *)
(***************************************************************************)
EXTENDS Integers, Sequences, FiniteSets, TLC

VARIABLES
    catalog,            \* modules.json 'list': module -> infos (found = FALSE: absent)
    inventory,          \* inventory get_module_infos: module -> infos (found = FALSE: error)
    config,             \* persisted configuration flags
    modules_updates,    \* self._modules_updates: module name -> update status
    processor,          \* self.__processor: <<>> or <<the dispatched sub action>>
    main_actions,       \* self.__main_actions
    main_actions_task,  \* self.__main_actions_task: "none", "started", "stopped"
    sub_actions,        \* self.__sub_actions
    sub_actions_task,   \* self.__sub_actions_task: "none", "started", "stopped"
    leaked_tasks,       \* started sub action Task objects no attribute refers to any more
    sub_ticks,          \* sub action ticks that passed the processor check and did not run yet
    running,            \* external Install processes that did not deliver a terminal status yet
    ret,                \* what the last public call (or the last direct call) returned or raised
    accepted,           \* history: number of main actions postponed so far
    errored,            \* history: ids of the main actions a sub action of which reported an error
    main_actions_mutex, \* self.__main_actions_mutex: TRUE when the Lock is locked
    threads             \* the threads that use the mutex: where each one is, and its request

\* the variables but the mutex and its threads
state == <<catalog, inventory, config, modules_updates, processor, main_actions,
           main_actions_task, sub_actions, sub_actions_task, leaked_tasks, sub_ticks,
           running, ret, accepted, errored>>

locks == <<main_actions_mutex, threads>>

vars == <<catalog, inventory, config, modules_updates, processor, main_actions,
          main_actions_task, sub_actions, sub_actions_task, leaked_tasks, sub_ticks,
          running, ret, accepted, errored, main_actions_mutex, threads>>

world == <<catalog, inventory>>

----------------------------------------------------------------------------
(* Bounds *)

Modules == {"X", "Y", "Z"}

\* a module name that is never a target nor a dependency (appears in loadedby only)
OutsideModules == {"W"}

\* longest 'deps' list of a drawn module infos
MaxDeps == 2

\* main actions accepted in one behaviour
MaxSubmits == 2

----------------------------------------------------------------------------
(* Constants of the program *)

ACTION_MODULE_INSTALL == "install"
ACTION_MODULE_UPDATE == "update"
ACTION_MODULE_UNINSTALL == "uninstall"

Actions == {ACTION_MODULE_INSTALL, ACTION_MODULE_UPDATE, ACTION_MODULE_UNINSTALL}

\* Install.STATUS_PROCESSING, Install.STATUS_DONE, Install.STATUS_ERROR
STATUS_PROCESSING == "processing"
STATUS_DONE == "done"
STATUS_ERROR == "error"

Statuses == {STATUS_PROCESSING, STATUS_DONE, STATUS_ERROR}

\* status >= Install.STATUS_DONE: the Install class is not part of the repository;
\* done and error are its terminal statuses, in progress is below done
IsTerminalStatus(status) == status \in {STATUS_DONE, STATUS_ERROR}

----------------------------------------------------------------------------
(* Values *)

None == <<>>

Some(v) == <<v>>

Last(list) == list[Len(list)]

\* list.pop(): the list without its last element
Pop(list) == SubSeq(list, 1, Len(list) - 1)

\* the list, had the item been appended
InsertLast(list, item) == Append(list, item)

\* list.insert(0, item)
Insert0(list, item) == <<item>> \o list

Range(list) == {list[i] : i \in 1..Len(list)}

Reverse(list) == [i \in 1..Len(list) |-> list[Len(list) + 1 - i]]

\* dict[key] = value
Put(dict, key, value) ==
    [k \in DOMAIN dict \cup {key} |-> IF k = key THEN value ELSE dict[k]]

EmptyDict == [k \in {} |-> None]

NoInfos == [found |-> FALSE, version |-> <<0, 0, 0>>, deps |-> <<>>, loadedby |-> <<>>]

\* Tools.compare_versions(old_version, new_version): True when new_version is greater
CompareVersions(old_version, new_version) ==
    \/ old_version[1] < new_version[1]
    \/ old_version[1] = new_version[1] /\ old_version[2] < new_version[2]
    \/ old_version[1] = new_version[1] /\ old_version[2] = new_version[2]
       /\ old_version[3] < new_version[3]

----------------------------------------------------------------------------
(* Module infos lookups: [raised |-> "" or the exception, value |-> infos] *)

GetModuleInfosFromModulesJson(module_name) ==
    [raised |-> "", value |-> catalog[module_name]]

GetModuleInfosFromInventory(module_name) ==
    IF inventory[module_name].found
    THEN [raised |-> "", value |-> inventory[module_name]]
    ELSE [raised |-> "Exception", value |-> NoInfos]

GetModuleInfos(callback, module_name) ==
    IF callback = "inventory"
    THEN GetModuleInfosFromInventory(module_name)
    ELSE GetModuleInfosFromModulesJson(module_name)

----------------------------------------------------------------------------
(* _get_module_dependencies *)

\* the initial context, had the start module not been recorded as visited
InitialContextNoVisited(module_name, modules_infos) ==
    [dependencies |-> <<>>, visited |-> <<>>,
     modules_infos |-> modules_infos, raised |-> ""]

\* the context of the initial call
InitialContext(module_name, modules_infos) ==
    [dependencies |-> <<>>, visited |-> <<module_name>>,
     modules_infos |-> modules_infos, raised |-> ""]

\* context['dependencies'].append(module_name), unless an exception is propagating
AppendDependency(context, module_name) ==
    IF context.raised # "" THEN context
    ELSE [context EXCEPT !.dependencies = Append(@, module_name)]

\* the dependencies, had absent infos been read as infos without dependencies
DepsOfOrEmpty(infos) ==
    [raised |-> "", value |-> IF infos.found THEN infos.deps ELSE <<>>]

\* infos[u'deps']: a TypeError when the lookup returned None
DepsOf(infos) ==
    IF infos.found THEN [raised |-> "", value |-> infos.deps]
    ELSE [raised |-> "TypeError", value |-> <<>>]

RECURSIVE GetModuleDependenciesRec(_, _, _, _)
RECURSIVE GetModuleDependenciesLoop(_, _, _, _, _)

\* one call with its context (initial: the call that created the context)
GetModuleDependenciesRec(module_name, callback, context, initial) ==
    IF ~initial /\ module_name \in Range(context.visited)
    THEN context
    ELSE IF module_name \in DOMAIN context.modules_infos
    THEN \* 'infos' is assigned only in the lookup branch
         [context EXCEPT !.raised = "UnboundLocalError"]
    ELSE LET looked == GetModuleInfos(callback, module_name) IN
         IF looked.raised # ""
         THEN [context EXCEPT !.raised = looked.raised]
         ELSE LET stored == [context EXCEPT
                                !.modules_infos = Put(@, module_name, looked.value)]
                  deps == DepsOf(looked.value) IN
              IF deps.raised # ""
              THEN [stored EXCEPT !.raised = deps.raised]
              ELSE AppendDependency(
                       GetModuleDependenciesLoop(module_name, deps.value, 1,
                                                 callback, stored),
                       module_name)

\* for dependency_name in infos['deps'], from index i on
GetModuleDependenciesLoop(module_name, deps, i, callback, context) ==
    IF i > Len(deps) \/ context.raised # "" THEN context
    ELSE IF deps[i] = module_name
    THEN GetModuleDependenciesLoop(module_name, deps, i + 1, callback, context)
    ELSE GetModuleDependenciesLoop(module_name, deps, i + 1, callback,
             GetModuleDependenciesRec(deps[i], callback, context, FALSE))

\* [raised, dependencies (the list returned), modules_infos (the dict filled)]
GetModuleDependencies(module_name, modules_infos, callback) ==
    GetModuleDependenciesRec(module_name, callback,
                             InitialContext(module_name, modules_infos), TRUE)

----------------------------------------------------------------------------
(* _get_modules_to_uninstall *)

\* list.remove(item): the list without the first occurrence of item
Remove(list, item) ==
    LET at == CHOOSE i \in 1..Len(list) :
                  list[i] = item /\ \A j \in 1..(i - 1) : list[j] # item
    IN  SubSeq(list, 1, at - 1) \o SubSeq(list, at + 1, Len(list))

\* the infos used for a candidate
CandidateInfos(module_to_uninstall, modules_infos) ==
    IF module_to_uninstall \notin DOMAIN modules_infos
    THEN [NoInfos EXCEPT !.loadedby = <<"orphan">>]
    ELSE modules_infos[module_to_uninstall]

\* a loadedby entry outside the list makes the loop remove the candidate and break
StillNeeded(module_to_uninstall, modules_to_uninstall, modules_infos) ==
    \E loaded_by \in Range(CandidateInfos(module_to_uninstall, modules_infos).loadedby) :
        loaded_by \notin Range(modules_to_uninstall)

RECURSIVE GetModulesToUninstallLoopOnOut(_, _, _, _)

\* the loop, had the loadedby entries been looked for in 'out' instead of the input
GetModulesToUninstallLoopOnOut(modules_to_uninstall, modules_infos, i, out) ==
    IF i > Len(modules_to_uninstall) THEN out
    ELSE GetModulesToUninstallLoopOnOut(modules_to_uninstall, modules_infos, i + 1,
             IF StillNeeded(modules_to_uninstall[i], out, modules_infos)
             THEN Remove(out, modules_to_uninstall[i])
             ELSE out)

\* the loop on the candidates: 'out' starts as a copy of the input, which is only read
RECURSIVE GetModulesToUninstallLoop(_, _, _, _)

GetModulesToUninstallLoop(modules_to_uninstall, modules_infos, i, out) ==
    IF i > Len(modules_to_uninstall) THEN out
    ELSE GetModulesToUninstallLoop(modules_to_uninstall, modules_infos, i + 1,
             IF StillNeeded(modules_to_uninstall[i], modules_to_uninstall, modules_infos)
             THEN Remove(out, modules_to_uninstall[i])
             ELSE out)

GetModulesToUninstall(modules_to_uninstall, modules_infos) ==
    GetModulesToUninstallLoop(modules_to_uninstall, modules_infos, 1, modules_to_uninstall)

----------------------------------------------------------------------------
(* Sub actions and the planning of a batch *)

\* history field 'id': the main action the sub action was planned for
SubAction(action, module_name, module_infos, main_module_name, extra, id) ==
    [action |-> action, module |-> module_name, main |-> main_module_name,
     infos |-> module_infos, extra |-> extra, progressstep |-> None, id |-> id]

\* the queue, had the sub action been appended instead of inserted at index 0
PostponeSubActionAtEnd(list, action, module_name, module_infos, main_module_name, extra, id) ==
    Append(list, SubAction(action, module_name, module_infos, main_module_name, extra, id))

\* _postpone_sub_action
PostponeSubAction(list, action, module_name, module_infos, main_module_name, extra, id) ==
    Insert0(list, SubAction(action, module_name, module_infos, main_module_name, extra, id))

\* _get_installed_modules_names
GetInstalledModulesNames == DOMAIN modules_updates

\* a planner returns [raised |-> "" or the exception, sub_actions |-> the queue it leaves]
Planned(raised, list) == [raised |-> raised, sub_actions |-> list]

\* the installed dependency is updated when the catalog version is greater
NeedsUpdate(installed_version, catalog_version) ==
    CompareVersions(installed_version, catalog_version)

RECURSIVE InstallMainModuleLoop(_, _, _, _, _, _)

\* for dependency_name in dependencies, from index i on
InstallMainModuleLoop(module_name, dependencies, i, modules_infos_json, id, list) ==
    IF i > Len(dependencies) THEN Planned("", list)
    ELSE LET dependency_name == dependencies[i] IN
         IF dependency_name \notin GetInstalledModulesNames
         THEN InstallMainModuleLoop(module_name, dependencies, i + 1, modules_infos_json, id,
                  PostponeSubAction(list, ACTION_MODULE_INSTALL, dependency_name,
                                    modules_infos_json[dependency_name], module_name, None, id))
         ELSE LET looked == GetModuleInfosFromInventory(dependency_name) IN
              IF looked.raised # "" THEN Planned(looked.raised, list)
              ELSE IF NeedsUpdate(looked.value.version,
                                  modules_infos_json[dependency_name].version)
              THEN InstallMainModuleLoop(module_name, dependencies, i + 1,
                       modules_infos_json, id,
                       PostponeSubAction(list, ACTION_MODULE_UPDATE, dependency_name,
                                         modules_infos_json[dependency_name], module_name,
                                         None, id))
              ELSE InstallMainModuleLoop(module_name, dependencies, i + 1,
                       modules_infos_json, id, list)

\* _install_main_module
InstallMainModule(module_name, id, list) ==
    LET resolved == GetModuleDependencies(module_name, EmptyDict, "json") IN
    IF resolved.raised # "" THEN Planned(resolved.raised, list)
    ELSE InstallMainModuleLoop(module_name, resolved.dependencies, 1,
                               resolved.modules_infos, id, list)

RECURSIVE PostponeAll(_, _, _, _, _, _, _, _)

\* for mod_name in names: self._postpone_sub_action(action, mod_name, infos[mod_name], ...)
PostponeAll(list, action, names, i, modules_infos, main_module_name, extra, id) ==
    IF i > Len(names) THEN list
    ELSE PostponeAll(
             PostponeSubAction(list, action, names[i], modules_infos[names[i]],
                               main_module_name, extra, id),
             action, names, i + 1, modules_infos, main_module_name, extra, id)

\* the list, had the modules still needed by others not been removed
ModulesToUninstallUnpruned(dependencies, modules_infos) == dependencies

\* the list the uninstall planner queues
ModulesToUninstall(dependencies, modules_infos) ==
    GetModulesToUninstall(dependencies, modules_infos)

\* _uninstall_main_module
UninstallMainModule(module_name, extra, id, list) ==
    LET resolved == GetModuleDependencies(module_name, EmptyDict, "inventory") IN
    IF resolved.raised # "" THEN Planned(resolved.raised, list)
    ELSE Planned("",
             PostponeAll(list, ACTION_MODULE_UNINSTALL,
                         ModulesToUninstall(resolved.dependencies, resolved.modules_infos),
                         1, resolved.modules_infos, module_name, extra, id))

\* the list, had the condition of the comprehension been left out
FilterAll(list, kept) == list

\* [x for x in list if keep(x)]
RECURSIVE Filter(_, _)

Filter(list, kept) ==
    IF list = <<>> THEN <<>>
    ELSE (IF list[1] \in kept THEN <<list[1]>> ELSE <<>>) \o Filter(Tail(list), kept)

\* _update_main_module
UpdateMainModule(module_name, id, list) ==
    LET old == GetModuleDependencies(module_name, EmptyDict, "inventory") IN
    IF old.raised # "" THEN Planned(old.raised, list)
    ELSE
    LET new == GetModuleDependencies(module_name, EmptyDict, "json") IN
    IF new.raised # "" THEN Planned(new.raised, list)
    ELSE
    LET old_dependencies == old.dependencies
        new_dependencies == new.dependencies
        dependencies_to_uninstall ==
            Filter(old_dependencies, Range(old_dependencies) \ Range(new_dependencies))
        dependencies_to_install ==
            Filter(new_dependencies, Range(new_dependencies) \ Range(old_dependencies))
        dependencies_to_update ==
            Filter(new_dependencies,
                   {mod_name \in Range(new_dependencies) \cap Range(old_dependencies) :
                        CompareVersions(old.modules_infos[mod_name].version,
                                        new.modules_infos[mod_name].version)})
        uninstalls == PostponeAll(list, ACTION_MODULE_UNINSTALL, dependencies_to_uninstall,
                                  1, old.modules_infos, module_name,
                                  Some([force |-> TRUE]), id)
        installs == PostponeAll(uninstalls, ACTION_MODULE_INSTALL, dependencies_to_install,
                                1, new.modules_infos, module_name, None, id)
    IN  Planned("",
            PostponeAll(installs, ACTION_MODULE_UPDATE, dependencies_to_update,
                        1, new.modules_infos, module_name, None, id))

----------------------------------------------------------------------------
(* The status of the module being processed *)

\* __get_module_update_data (the fields the scheduler reads or writes)
ModuleUpdateData ==
    [processing |-> FALSE, update |-> [progress |-> 0, failed |-> FALSE]]

\* _get_processing_module_name: None or the module of the oldest main action
GetProcessingModuleName(actions) ==
    IF Len(actions) = 0 THEN None
    ELSE IF Last(actions).processing THEN Some(Last(actions).module) ELSE None

\* the progress written by _set_module_process
NewProgress(current, progress, inc_progress, failed) ==
    LET set == IF progress # None THEN progress[1]
               ELSE IF inc_progress # None THEN current + inc_progress[1]
               ELSE current
        clamped == IF set > 100 THEN 100 ELSE set
    IN  IF failed # None THEN 100 ELSE clamped

\* _set_module_process: the new self._modules_updates
SetModuleProcess(updates, actions, progress, inc_progress, failed) ==
    LET module_name == GetProcessingModuleName(actions) IN
    IF module_name = None THEN updates
    ELSE LET name == module_name[1]
             known == IF name \in DOMAIN updates THEN updates
                      ELSE Put(updates, name, ModuleUpdateData)
             module == known[name]
         IN  [known EXCEPT ![name] =
                 [processing |-> TRUE,
                  update |-> [progress |-> NewProgress(module.update.progress, progress,
                                                       inc_progress, failed),
                              failed |-> IF failed # None THEN failed[1]
                                         ELSE module.update.failed]]]

\* _is_module_process_failed: [raised, value]
IsModuleProcessFailed(updates, actions) ==
    LET module_name == GetProcessingModuleName(actions) IN
    IF module_name = None THEN [raised |-> "", value |-> TRUE]
    ELSE IF module_name[1] \notin DOMAIN updates
    THEN [raised |-> "KeyError", value |-> FALSE]
    ELSE [raised |-> "", value |-> updates[module_name[1]].update.failed]

----------------------------------------------------------------------------
(* Main actions: the public operations *)

\* the outcome of a call: the exception raised or the value returned (args and infos:
\* the arguments and the filled infos dict of a direct call of a helper)
NoCall == [call |-> "", args |-> <<>>, raised |-> "", value |-> None, infos |-> EmptyDict]

Raised(call, exception) == [NoCall EXCEPT !.call = call, !.raised = exception]

Returned(call, value) == [NoCall EXCEPT !.call = call, !.value = Some(value)]

\* history field 'id': the rank of the main action among the accepted ones
MainAction(action, module_name, extra) ==
    [action |-> action, module |-> module_name, extra |-> extra,
     processing |-> FALSE, id |-> accepted + 1]

\* the entries found, had the search of a similar entry been left out
ExistingActionsNone(action, module_name) == {}

\* the entries _postpone_main_action finds similar to the request
ExistingActions(action, module_name) ==
    {i \in 1..Len(main_actions) :
        main_actions[i].module = module_name /\ main_actions[i].action = action}

\* _postpone_main_action, called by the public operation 'call'
PostponeMainAction(call, action, module_name, extra) ==
    IF ExistingActions(action, module_name) = {}
    THEN /\ accepted < MaxSubmits
         /\ main_actions' = Insert0(main_actions, MainAction(action, module_name, extra))
         /\ accepted' = accepted + 1
         /\ ret' = Returned(call, TRUE)
    ELSE /\ ret' = Returned(call, FALSE)
         /\ UNCHANGED <<main_actions, accepted>>

\* the rejection, had the call returned False instead of raising
RejectSilently(call, exception) ==
    /\ ret' = Returned(call, FALSE)
    /\ UNCHANGED <<main_actions, accepted>>

\* a rejected public call
Reject(call, exception) ==
    /\ ret' = Raised(call, exception)
    /\ UNCHANGED <<main_actions, accepted>>

SubmitFrame ==
    UNCHANGED <<world, locks, config, modules_updates, processor, main_actions_task, sub_actions,
                sub_actions_task, leaked_tasks, sub_ticks, running, errored>>

\* install_module
InstallModule(module_name) ==
    /\ IF module_name = "" THEN Reject("install_module", "MissingParameter")
       ELSE IF module_name \in GetInstalledModulesNames
       THEN Reject("install_module", "InvalidParameter")
       ELSE PostponeMainAction("install_module", ACTION_MODULE_INSTALL, module_name, None)
    /\ SubmitFrame

\* uninstall_module
UninstallModule(module_name, force) ==
    /\ IF module_name = "" THEN Reject("uninstall_module", "MissingParameter")
       ELSE IF module_name \notin GetInstalledModulesNames
       THEN Reject("uninstall_module", "InvalidParameter")
       ELSE PostponeMainAction("uninstall_module", ACTION_MODULE_UNINSTALL, module_name,
                               Some([force |-> force]))
    /\ SubmitFrame

\* update_module
UpdateModule(module_name) ==
    /\ IF module_name = "" THEN Reject("update_module", "MissingParameter")
       ELSE IF module_name \notin GetInstalledModulesNames
       THEN Reject("update_module", "InvalidParameter")
       ELSE PostponeMainAction("update_module", ACTION_MODULE_UPDATE, module_name, None)
    /\ SubmitFrame

----------------------------------------------------------------------------
(* The main actions task *)

\* update_modules: starts the main actions task when there is none
UpdateModulesTask == IF main_actions_task = "none" THEN "started" ELSE main_actions_task

UpdateModules ==
    /\ main_actions_task' = UpdateModulesTask
    /\ UNCHANGED <<world, locks, config, modules_updates, processor, main_actions, sub_actions,
                   sub_actions_task, leaked_tasks, sub_ticks, running, ret, accepted,
                   errored>>

\* set_automatic_update (with boolean parameters)
SetAutomaticUpdate(cleep_update_enabled, modules_update_enabled) ==
    /\ main_actions_task' =
           IF ~modules_update_enabled /\ main_actions_task # "none"
           THEN "stopped" ELSE main_actions_task
    /\ config' = [cleepupdateenabled |-> cleep_update_enabled,
                  modulesupdateenabled |-> modules_update_enabled]
    /\ UNCHANGED <<world, locks, modules_updates, processor, main_actions, sub_actions,
                   sub_actions_task, leaked_tasks, sub_ticks, running, ret, accepted,
                   errored>>

\* event_received, for the parameters.time.now event of the daily check time:
\* the two checks may raise, which ends the handler
EventReceived(checks_ok) ==
    /\ main_actions_task' =
           IF checks_ok /\ ~config.cleepupdateenabled /\ config.modulesupdateenabled
           THEN UpdateModulesTask ELSE main_actions_task
    /\ UNCHANGED <<world, locks, config, modules_updates, processor, main_actions, sub_actions,
                   sub_actions_task, leaked_tasks, sub_ticks, running, ret, accepted,
                   errored>>

\* the planner of a main action, on the sub action queue it finds
Plan(action, list) ==
    IF action.action = ACTION_MODULE_INSTALL
    THEN InstallMainModule(action.module, action.id, list)
    ELSE IF action.action = ACTION_MODULE_UNINSTALL
    THEN UninstallMainModule(action.module, action.extra, action.id, list)
    ELSE UpdateMainModule(action.module, action.id, list)

\* the step, had the division been rounded up
ProgressStepCeiling(count) == IF count = 0 THEN 0 ELSE (100 + count - 1) \div count

\* progress_step = int(100 / len(self.__sub_actions)), 0 for an empty queue
ProgressStep(count) == IF count = 0 THEN 0 ELSE 100 \div count

SetProgressSteps(list) ==
    [i \in 1..Len(list) |-> [list[i] EXCEPT !.progressstep = Some(ProgressStep(Len(list)))]]

\* the main actions, had the terminated one been kept
RemoveTerminatedNever(actions) == actions

\* the main actions left once the terminated one is removed
RemoveTerminated(actions) ==
    IF Len(actions) > 0 /\ Last(actions).processing THEN Pop(actions) ELSE actions

\* the test, had the tick never deferred
MainActionDeferredNever == FALSE

\* the tick defers while the batch of the previous main action is not drained
MainActionDeferred == Len(sub_actions) # 0

\* _execute_main_action_task between the acquire of the mutex and its release
MainActionTick ==
    /\ IF MainActionDeferred
       THEN UNCHANGED state
       ELSE LET remaining == RemoveTerminated(main_actions) IN
            IF Len(remaining) = 0
            THEN /\ main_actions' = remaining
                 /\ sub_actions_task' =
                        IF sub_actions_task # "none" THEN "stopped" ELSE sub_actions_task
                 /\ UNCHANGED <<world, config, modules_updates, processor,
                                main_actions_task, sub_actions, leaked_tasks, sub_ticks,
                                running, ret, accepted, errored>>
            ELSE LET marked == [remaining EXCEPT ![Len(remaining)].processing = TRUE]
                     planned == Plan(Last(marked), sub_actions)
                 IN  IF planned.raised # ""
                     THEN \* caught and logged: what was done so far stays
                          /\ main_actions' = marked
                          /\ sub_actions' = planned.sub_actions
                          /\ UNCHANGED <<world, config, modules_updates, processor,
                                         main_actions_task, sub_actions_task, leaked_tasks,
                                         sub_ticks, running, ret, accepted, errored>>
                     ELSE /\ main_actions' = marked
                          /\ modules_updates' =
                                 SetModuleProcess(modules_updates, marked, Some(0), None, None)
                          /\ sub_actions' = SetProgressSteps(planned.sub_actions)
                          \* a new Task replaces the attribute: a started one keeps running
                          /\ sub_actions_task' = "started"
                          /\ leaked_tasks' =
                                 leaked_tasks + (IF sub_actions_task = "started" THEN 1 ELSE 0)
                          /\ sub_ticks' =
                                 [cur |-> 0,
                                  leaked |-> sub_ticks.leaked
                                     + (IF sub_actions_task = "started" THEN sub_ticks.cur ELSE 0),
                                  dead |-> sub_ticks.dead
                                     + (IF sub_actions_task = "started" THEN 0 ELSE sub_ticks.cur)]
                          /\ UNCHANGED <<world, config, processor, main_actions_task,
                                         running, ret, accepted, errored>>

\* _execute_main_action_task, one tick of the main actions task: the mutex is held
\* from the first statement to the last, the tick is one step
ExecuteMainActionTask ==
    /\ main_actions_task = "started"
    /\ MainActionTick
    /\ UNCHANGED locks

----------------------------------------------------------------------------
(* The sub actions tasks.  A Task runs its ticks one after the other; ticks   *)
(* of different Task objects run on different threads, so a tick is two       *)
(* steps: the check of the processor, then the rest.  Tasks are counted by    *)
(* class: "cur" is the Task self.__sub_actions_task refers to, "leaked" the   *)
(* started Tasks nothing refers to, "dead" the stopped Tasks with a tick left.*)

TaskClasses == {"cur", "leaked", "dead"}

\* a Task of the class is started and between two ticks
IdleTask(class) ==
    IF class = "cur" THEN sub_actions_task = "started" /\ sub_ticks.cur = 0
    ELSE IF class = "leaked" THEN leaked_tasks > sub_ticks.leaked
    ELSE FALSE

\* the check a tick starts with: 'if self.__processor: return'
ProcessorBusy == processor # None

\* _execute_sub_actions_task, up to the check of the processor
ExecuteSubActionsTaskCheck(class) ==
    /\ IdleTask(class)
    /\ IF ProcessorBusy
       THEN UNCHANGED vars
       ELSE /\ sub_ticks' = [sub_ticks EXCEPT ![class] = @ + 1]
            /\ UNCHANGED <<world, locks, config, modules_updates, processor, main_actions,
                           main_actions_task, sub_actions, sub_actions_task, leaked_tasks,
                           running, ret, accepted, errored>>

\* the tick of the class is over; an exception that escaped it either was caught by
\* the Task (it goes on) or ended its thread (no further tick)
TickOver(class, task_ended) ==
    /\ sub_ticks' = [sub_ticks EXCEPT ![class] = @ - 1]
    /\ sub_actions_task' =
           IF task_ended /\ class = "cur" /\ sub_actions_task = "started"
           THEN "stopped" ELSE sub_actions_task
    /\ leaked_tasks' =
           IF task_ended /\ class = "leaked" THEN leaked_tasks - 1 ELSE leaked_tasks

\* the test, had the failure of the main module been ignored
SkipSubActionNever(failed) == FALSE

\* the sub action is skipped when the process of the main module failed
SkipSubAction(failed) == failed

\* _execute_sub_actions_task, after the check of the processor
ExecuteSubActionsTaskRun(class) ==
    /\ sub_ticks[class] > 0
    /\ IF Len(sub_actions) = 0
       THEN \* IndexError: pop from empty list
            /\ \E task_ended \in BOOLEAN : TickOver(class, task_ended)
            /\ UNCHANGED <<world, locks, config, modules_updates, processor, main_actions,
                           main_actions_task, sub_actions, running, ret, accepted, errored>>
       ELSE LET sub_action == Last(sub_actions)
                failed == IsModuleProcessFailed(modules_updates, main_actions)
            IN  /\ sub_actions' = Pop(sub_actions)
                /\ IF failed.raised # ""
                   THEN /\ \E task_ended \in BOOLEAN : TickOver(class, task_ended)
                        /\ UNCHANGED <<modules_updates, processor, running>>
                   ELSE IF SkipSubAction(failed.value)
                   THEN /\ TickOver(class, FALSE)
                        /\ UNCHANGED <<modules_updates, processor, running>>
                   ELSE /\ TickOver(class, FALSE)
                        /\ modules_updates' =
                               SetModuleProcess(modules_updates, main_actions, None,
                                                sub_action.progressstep, None)
                        \* _install_module, _uninstall_module, _update_module
                        /\ processor' = Some(sub_action)
                        /\ running' = running \cup {sub_action}
                /\ UNCHANGED <<world, locks, config, main_actions, main_actions_task, ret,
                               accepted, errored>>

----------------------------------------------------------------------------
(* The callbacks of the external processor *)

\* the status is an error: _set_module_process(failed=True)
CallbackStatus(status) ==
    IF status = STATUS_ERROR
    THEN SetModuleProcess(modules_updates, main_actions, None, None, Some(TRUE))
    ELSE modules_updates

\* the end of the process resets the processor
CallbackProcessor(status) ==
    IF IsTerminalStatus(status) THEN None ELSE processor

\* what the three callbacks share, for a running process p
ModuleCallback(p, status) ==
    /\ modules_updates' = CallbackStatus(status)
    /\ processor' = CallbackProcessor(status)
    /\ running' = IF IsTerminalStatus(status) THEN running \ {p} ELSE running
    /\ errored' = IF status = STATUS_ERROR THEN errored \cup {p.id} ELSE errored
    /\ UNCHANGED <<world, locks, config, main_actions, main_actions_task, sub_actions,
                   sub_actions_task, leaked_tasks, sub_ticks, ret, accepted>>

\* __install_module_callback
InstallModuleCallback(p, status) ==
    /\ p \in running
    /\ p.action = ACTION_MODULE_INSTALL
    /\ ModuleCallback(p, status)

\* __uninstall_module_callback
UninstallModuleCallback(p, status) ==
    /\ p \in running
    /\ p.action = ACTION_MODULE_UNINSTALL
    /\ ModuleCallback(p, status)

\* __update_module_callback
UpdateModuleCallback(p, status) ==
    /\ p \in running
    /\ p.action = ACTION_MODULE_UPDATE
    /\ ModuleCallback(p, status)

----------------------------------------------------------------------------
(* Direct calls of the helpers *)

\* _get_module_dependencies(module_name, {}, callback)
CallGetModuleDependencies(module_name, callback) ==
    /\ LET resolved == GetModuleDependencies(module_name, EmptyDict, callback) IN
       ret' = [call |-> "_get_module_dependencies", args |-> <<module_name, callback>>,
               raised |-> resolved.raised,
               value |-> IF resolved.raised = "" THEN Some(resolved.dependencies) ELSE None,
               infos |-> resolved.modules_infos]
    /\ UNCHANGED <<world, locks, config, modules_updates, processor, main_actions,
                   main_actions_task, sub_actions, sub_actions_task, leaked_tasks,
                   sub_ticks, running, accepted, errored>>

\* _get_modules_to_uninstall(modules_to_uninstall, modules_infos)
CallGetModulesToUninstall(modules_to_uninstall, modules_infos) ==
    /\ ret' = [call |-> "_get_modules_to_uninstall",
               args |-> <<modules_to_uninstall, modules_infos>>,
               raised |-> "",
               value |-> Some(GetModulesToUninstall(modules_to_uninstall, modules_infos)),
               infos |-> modules_infos]
    /\ UNCHANGED <<world, locks, config, modules_updates, processor, main_actions,
                   main_actions_task, sub_actions, sub_actions_task, leaked_tasks,
                   sub_ticks, running, accepted, errored>>

----------------------------------------------------------------------------
(* Worlds *)

Infos(version, deps, loadedby) ==
    [found |-> TRUE, version |-> version, deps |-> deps, loadedby |-> loadedby]

\* a world: the catalog, the inventory and the modules installed at start
World(c, i, installed) == [catalog |-> c, inventory |-> i, installed |-> installed]

\* the lists without repetition of at most n elements of S
ListsOf(S, n) ==
    {list \in UNION {[1..k -> S] : k \in 0..n} :
        \A a, b \in 1..Len(list) : a # b => list[a] # list[b]}

DepsLists == ListsOf(Modules, MaxDeps)

\* the world of the scheduler: X depends on Y (installed, up to date) and Z
\* (installed, outdated); the inventory has no infos of X
SchedWorlds ==
    {World(
        [m \in Modules |->
            IF m = "X" THEN Infos(<<1, 0, 0>>, <<"Y", "Z">>, <<>>)
            ELSE IF m = "Y" THEN Infos(<<1, 0, 0>>, <<>>, <<>>)
            ELSE Infos(<<1, 1, 0>>, <<>>, <<>>)],
        [m \in Modules |->
            IF m = "X" THEN NoInfos
            ELSE IF m = "Y" THEN Infos(<<1, 0, 0>>, <<>>, <<"X">>)
            ELSE Infos(<<1, 0, 0>>, <<>>, <<>>)],
        {"Y", "Z"})}

\* every dependency graph, each module known or not, the same in both sources
GraphWorlds ==
    {World(c, c, {}) :
        c \in [Modules -> {NoInfos} \cup {Infos(<<1, 0, 0>>, d, <<>>) : d \in DepsLists}]}

\* the dependency graphs of the planning worlds: X depends on anything, Y on Z or not
PlanGraphs ==
    {g \in [Modules -> DepsLists] : g["Y"] \in {<<>>, <<"Z">>} /\ g["Z"] = <<>>}

CatalogVersions == {<<1, 0, 0>>, <<1, 0, 1>>, <<0, 9, 9>>}

\* install planning: Y and Z installed or not, older, equal or newer in the catalog,
\* known by the inventory or not
InstallWorlds ==
    {World([m \in Modules |-> Infos(v[m], g[m], <<>>)],
           [m \in Modules |-> IF m \in known THEN Infos(<<1, 0, 0>>, g[m], <<>>)
                              ELSE NoInfos],
           installed) :
        g \in PlanGraphs,
        v \in {f \in [Modules -> CatalogVersions] : f["X"] = <<1, 0, 0>>},
        known \in SUBSET {"Y", "Z"},
        installed \in SUBSET {"Y", "Z"}}

LoadedByLists ==
    {<<>>, <<"X">>, <<"Y">>, <<"Z">>, <<"W">>, <<"X", "W">>, <<"X", "Y">>}

\* uninstall planning: everything installed, each module loaded by some modules
UninstallWorlds ==
    {World([m \in Modules |-> Infos(<<1, 0, 0>>, g[m], <<>>)],
           [m \in Modules |-> IF m \in known THEN Infos(<<1, 0, 0>>, g[m], l[m])
                              ELSE NoInfos],
           Modules) :
        g \in PlanGraphs,
        l \in {f \in [Modules -> LoadedByLists] : f["X"] \in {<<>>, <<"W">>}},
        known \in {Modules, Modules \ {"Y"}}}

\* the modules of the update planning worlds: Q is known by the catalog only
UpdateWorldModules == Modules \cup {"Q"}

\* update planning: X installed with dependencies among Y and Z, its catalog
\* dependencies among Y, Z and Q; X and Y older, equal or newer in the catalog
UpdateWorlds ==
    {World([m \in UpdateWorldModules |->
               Infos(IF m \in {"X", "Y"} THEN v[m] ELSE <<1, 0, 0>>,
                     IF m = "X" THEN new ELSE <<>>, <<>>)],
           [m \in UpdateWorldModules |->
               IF m \in {"X"} \cup Range(old)
               THEN Infos(<<1, 0, 0>>, IF m = "X" THEN old ELSE <<>>, <<>>)
               ELSE NoInfos],
           {"X"} \cup Range(old)) :
        old \in {<<>>, <<"Y">>, <<"Z">>, <<"Y", "Z">>},
        new \in {<<>>, <<"Y">>, <<"Q">>, <<"Y", "Q">>, <<"Q", "Y">>, <<"Y", "Z">>},
        v \in [{"X", "Y"} -> CatalogVersions]}

PlanWorlds == GraphWorlds \cup InstallWorlds \cup UninstallWorlds \cup UpdateWorlds

\* the names of the candidates: a module may bear the name the function gives to
\* the unknown loader of a candidate without infos
CandidateNames == Modules \cup {"orphan"}

\* the candidate lists given to _get_modules_to_uninstall: no duplicates
CandidateLists == ListsOf(CandidateNames, Cardinality(Modules))

\* the infos dicts given to _get_modules_to_uninstall: some modules, each loaded by
\* some modules
CandidateInfosDicts ==
    UNION {[known -> {Infos(<<1, 0, 0>>, <<>>, l) : l \in LoadedByLists}] :
              known \in SUBSET Modules}

----------------------------------------------------------------------------
(* The mutex of the main actions.  A submission and a tick of the main        *)
(* actions task run on different threads; each one acquires the Lock, runs    *)
(* its body and releases the Lock.  Here a call is three steps: the call up   *)
(* to the acquire, the acquire, and the body with the release.                *)

\* the threads of the callers of the public operations
Callers == {"caller1", "caller2"}

\* the thread of the main actions task
MainActionsTaskThread == "task"

Threads == Callers \cup {MainActionsTaskThread}

\* a thread that is in none of the two functions
IdleThread == [at |-> "out", request |-> None]

\* the request of a public operation, as it is handed to _postpone_main_action
Request(action, module_name, force) ==
    [call |-> IF action = ACTION_MODULE_INSTALL THEN "install_module"
              ELSE IF action = ACTION_MODULE_UNINSTALL THEN "uninstall_module"
              ELSE "update_module",
     action |-> action,
     module |-> module_name,
     extra |-> IF action = ACTION_MODULE_UNINSTALL THEN Some([force |-> force]) ELSE None]

\* the exception a public operation raises before it calls _postpone_main_action
SubmitRaises(action, module_name) ==
    IF module_name = "" THEN "MissingParameter"
    ELSE IF action = ACTION_MODULE_INSTALL /\ module_name \in GetInstalledModulesNames
    THEN "InvalidParameter"
    ELSE IF action # ACTION_MODULE_INSTALL /\ module_name \notin GetInstalledModulesNames
    THEN "InvalidParameter"
    ELSE ""

\* the calls that entered _postpone_main_action and did not leave it yet
CallsInFlight == Cardinality({c \in Callers : threads[c].at # "out"})

\* a public operation on the thread c, up to the acquire in _postpone_main_action
SubmitCall(c, action, module_name, force) ==
    /\ threads[c].at = "out"
    /\ accepted + CallsInFlight < MaxSubmits
    /\ IF SubmitRaises(action, module_name) # ""
       THEN /\ Reject(Request(action, module_name, force).call,
                      SubmitRaises(action, module_name))
            /\ UNCHANGED threads
       ELSE /\ threads' = [threads EXCEPT ![c] =
                              [at |-> "acquire",
                               request |-> Some(Request(action, module_name, force))]]
            /\ UNCHANGED <<main_actions, accepted, ret>>
    /\ UNCHANGED <<world, main_actions_mutex, config, modules_updates, processor,
                   main_actions_task, sub_actions, sub_actions_task, leaked_tasks,
                   sub_ticks, running, errored>>

\* the timer of the main actions task fires: _execute_main_action_task is called
TickCall ==
    /\ main_actions_task = "started"
    /\ threads[MainActionsTaskThread].at = "out"
    /\ threads' = [threads EXCEPT ![MainActionsTaskThread].at = "acquire"]
    /\ UNCHANGED <<state, main_actions_mutex>>

\* self.__main_actions_mutex.acquire(): blocks while the Lock is locked
Acquire(t) ==
    /\ threads[t].at = "acquire"
    /\ ~main_actions_mutex
    /\ main_actions_mutex' = TRUE
    /\ threads' = [threads EXCEPT ![t].at = "locked"]
    /\ UNCHANGED state

\* the release, had it been the last statement of the body instead of a 'finally':
\* a return or an exception in the body skips it
MutexReleasedAtEndOfBody(exit) == exit \in {"planned", "duplicate"}

\* the 'finally' of both functions: the Lock is released whatever the way out
MutexReleased(exit) == TRUE

\* the thread t leaves the function by the way 'exit'
Release(t, exit) ==
    /\ main_actions_mutex' = ~MutexReleased(exit)
    /\ threads' = [threads EXCEPT ![t] = IdleThread]

\* the way _postpone_main_action is left
SubmitExit(action, module_name) ==
    IF ExistingActions(action, module_name) = {} THEN "postponed" ELSE "duplicate"

\* _postpone_main_action between the acquire of the mutex and its release
SubmitRun(c) ==
    /\ threads[c].at = "locked"
    /\ LET request == threads[c].request[1] IN
       /\ PostponeMainAction(request.call, request.action, request.module, request.extra)
       /\ Release(c, SubmitExit(request.action, request.module))
    /\ UNCHANGED <<world, config, modules_updates, processor, main_actions_task,
                   sub_actions, sub_actions_task, leaked_tasks, sub_ticks, running,
                   errored>>

\* the way _execute_main_action_task is left
TickExit ==
    IF MainActionDeferred THEN "deferred"
    ELSE LET remaining == RemoveTerminated(main_actions) IN
         IF Len(remaining) = 0 THEN "empty"
         ELSE LET marked == [remaining EXCEPT ![Len(remaining)].processing = TRUE] IN
              IF Plan(Last(marked), sub_actions).raised # "" THEN "exception"
              ELSE "planned"

\* _execute_main_action_task between the acquire of the mutex and its release
TickRun ==
    /\ threads[MainActionsTaskThread].at = "locked"
    /\ MainActionTick
    /\ Release(MainActionsTaskThread, TickExit)

----------------------------------------------------------------------------
(* Specifications *)

\* the state after __init__ and _configure, in world w with the persisted config c
InitIn(w, c) ==
    /\ catalog = w.catalog
    /\ inventory = w.inventory
    /\ config = c
    \* _fill_modules_updates
    /\ modules_updates = [m \in w.installed |-> ModuleUpdateData]
    /\ processor = None
    /\ main_actions = <<>>
    \* update_modules, when the modules update is enabled
    /\ main_actions_task = IF c.modulesupdateenabled THEN "started" ELSE "none"
    /\ sub_actions = <<>>
    /\ sub_actions_task = "none"
    /\ leaked_tasks = 0
    /\ sub_ticks = [cur |-> 0, leaked |-> 0, dead |-> 0]
    /\ running = {}
    /\ ret = NoCall
    /\ accepted = 0
    /\ errored = {}
    /\ main_actions_mutex = FALSE
    /\ threads = [t \in Threads |-> IdleThread]

Configs == [cleepupdateenabled : BOOLEAN, modulesupdateenabled : BOOLEAN]

\* the scheduler with its main actions task running: the modules update is enabled
Init ==
    \E w \in SchedWorlds :
        InitIn(w, [cleepupdateenabled |-> FALSE, modulesupdateenabled |-> TRUE])

Next ==
    \/ \E m \in Modules \cup {""} : InstallModule(m)
    \/ \E m \in Modules \cup {""}, force \in BOOLEAN : UninstallModule(m, force)
    \/ \E m \in Modules \cup {""} : UpdateModule(m)
    \/ ExecuteMainActionTask
    \/ \E class \in TaskClasses : ExecuteSubActionsTaskCheck(class)
    \/ \E class \in TaskClasses : ExecuteSubActionsTaskRun(class)
    \/ \E p \in running, status \in Statuses : InstallModuleCallback(p, status)
    \/ \E p \in running, status \in Statuses : UninstallModuleCallback(p, status)
    \/ \E p \in running, status \in Statuses : UpdateModuleCallback(p, status)

Spec == Init /\ [][Next]_vars

\* planning and dependency resolution, over all the drawn worlds: one direct call,
\* or one request on X and the ticks of the main actions task
InitPlan ==
    \E w \in PlanWorlds :
        InitIn(w, [cleepupdateenabled |-> FALSE, modulesupdateenabled |-> TRUE])

NoRequestYet == accepted = 0 /\ ret = NoCall

NextPlan ==
    \/ NoRequestYet /\ \E callback \in {"json", "inventory"} :
           CallGetModuleDependencies("X", callback)
    \/ NoRequestYet /\ InstallModule("X")
    \/ NoRequestYet /\ \E force \in BOOLEAN : UninstallModule("X", force)
    \/ NoRequestYet /\ UpdateModule("X")
    \/ ExecuteMainActionTask

SpecPlan == InitPlan /\ [][NextPlan]_vars

\* direct calls of _get_modules_to_uninstall, on all the drawn lists and dicts
NextFilter ==
    NoRequestYet /\ \E modules_to_uninstall \in CandidateLists,
                        modules_infos \in CandidateInfosDicts :
                        CallGetModulesToUninstall(modules_to_uninstall, modules_infos)

SpecFilter == Init /\ [][NextFilter]_vars

\* the life of the main actions task: any persisted configuration at start, the
\* submissions, the changes of the configuration, the daily check event, the calls
\* of update_modules and the ticks of the main actions task
InitLife == \E w \in SchedWorlds, c \in Configs : InitIn(w, c)

NextLife ==
    \/ \E m \in Modules \cup {""} : InstallModule(m)
    \/ \E m \in Modules \cup {""}, force \in BOOLEAN : UninstallModule(m, force)
    \/ \E m \in Modules \cup {""} : UpdateModule(m)
    \/ UpdateModules
    \/ \E cleep_update_enabled, modules_update_enabled \in BOOLEAN :
           SetAutomaticUpdate(cleep_update_enabled, modules_update_enabled)
    \/ \E checks_ok \in BOOLEAN : EventReceived(checks_ok)
    \/ ExecuteMainActionTask

SpecLife == InitLife /\ [][NextLife]_vars

\* the scheduler when the caller submits one request again and again: every main
\* action of a behaviour is the uninstall of Z
NextRetry ==
    \/ \E force \in BOOLEAN : UninstallModule("Z", force)
    \/ ExecuteMainActionTask
    \/ \E class \in TaskClasses : ExecuteSubActionsTaskCheck(class)
    \/ \E class \in TaskClasses : ExecuteSubActionsTaskRun(class)
    \/ \E p \in running, status \in Statuses : UninstallModuleCallback(p, status)

SpecRetry == Init /\ [][NextRetry]_vars

\* a world where a planner raises: the installed module Y is unknown to the inventory
MutexWorlds ==
    {World(
        [m \in Modules |->
            IF m = "X" THEN Infos(<<1, 0, 0>>, <<"Z", "Y">>, <<>>)
            ELSE IF m = "Y" THEN Infos(<<1, 0, 0>>, <<>>, <<>>)
            ELSE Infos(<<1, 1, 0>>, <<>>, <<>>)],
        [m \in Modules |->
            IF m = "Z" THEN Infos(<<1, 0, 0>>, <<>>, <<>>) ELSE NoInfos],
        {"Y", "Z"})}

\* the requests of the callers: installs and uninstalls of Y and Z, or of no module
MutexActions == {ACTION_MODULE_INSTALL, ACTION_MODULE_UNINSTALL}

MutexNames == {"Y", "Z", ""}

InitMutex ==
    \E w \in MutexWorlds :
        InitIn(w, [cleepupdateenabled |-> FALSE, modulesupdateenabled |-> TRUE])

\* the threads that use the mutex, step by step: two callers and the main actions
\* task (the sub actions tasks and the callbacks never touch the mutex)
NextMutex ==
    \/ \E c \in Callers, action \in MutexActions, m \in MutexNames :
           SubmitCall(c, action, m, FALSE)
    \/ TickCall
    \/ \E t \in Threads : Acquire(t)
    \/ \E c \in Callers : SubmitRun(c)
    \/ TickRun

\* a thread that holds the Lock is not blocked: it runs its body to the end
SpecMutex ==
    /\ InitMutex
    /\ [][NextMutex]_vars
    /\ WF_vars(TickRun)
    /\ \A c \in Callers : WF_vars(SubmitRun(c))

----------------------------------------------------------------------------
(* Helpers of the properties *)

\* the (action, module) keys of the queued main actions
Key(action) == <<action.action, action.module>>

\* the step is a public submission of (action, module_name) that passes validation
Submission(action, module_name) ==
    IF action = ACTION_MODULE_INSTALL THEN InstallModule(module_name)
    ELSE IF action = ACTION_MODULE_UPDATE THEN UpdateModule(module_name)
    ELSE \E force \in BOOLEAN : UninstallModule(module_name, force)

Validated(action, module_name) ==
    IF action = ACTION_MODULE_INSTALL THEN module_name \notin GetInstalledModulesNames
    ELSE module_name \in GetInstalledModulesNames

\* the step is the callback of the running process p with the status
CallbackStep(p, status) ==
    \/ InstallModuleCallback(p, status)
    \/ UninstallModuleCallback(p, status)
    \/ UpdateModuleCallback(p, status)

\* the sub actions the step hands to the external processor
Dispatched == running' \ running

\* the step pops a sub action and skips it
SkipStep ==
    /\ Len(sub_actions) > 0
    /\ sub_actions' = Pop(sub_actions)
    /\ running' = running
    /\ LET failed == IsModuleProcessFailed(modules_updates, main_actions) IN
       failed.raised = "" /\ failed.value

IsFailed(updates, module_name) ==
    module_name \in DOMAIN updates /\ updates[module_name].update.failed

----------------------------------------------------------------------------
(* C1: the main action queue never holds two entries with the same (action,  *)
(* module) key; a submission whose key is queued returns False and leaves    *)
(* the queue unchanged, any other one returns True and inserts exactly one   *)
(* entry, with that key.                                                     *)

NoDuplicateMainAction ==
    \A i, j \in 1..Len(main_actions) :
        i # j => Key(main_actions[i]) # Key(main_actions[j])

PostponeOnce(action, module_name) ==
    IF \E i \in 1..Len(main_actions) : Key(main_actions[i]) = <<action, module_name>>
    THEN ret'.value = Some(FALSE) /\ main_actions' = main_actions
    ELSE /\ ret'.value = Some(TRUE)
         /\ Len(main_actions') = Len(main_actions) + 1
         /\ Key(main_actions'[1]) = <<action, module_name>>
         /\ ~main_actions'[1].processing
         /\ Tail(main_actions') = main_actions

C1_MainActionsDeduplicated ==
    /\ []NoDuplicateMainAction
    /\ [][\A action \in Actions, module_name \in Modules :
            (Validated(action, module_name) /\ Submission(action, module_name))
                => PostponeOnce(action, module_name)]_vars

\* a duplicate was dropped while two main actions are queued
C1_Witness ==
    /\ ret.call = "install_module"
    /\ ret.value = Some(FALSE)
    /\ Len(main_actions) = 2

----------------------------------------------------------------------------
(* C2: at most one external processor is live: no sub action is dispatched   *)
(* before the terminal callback of the previously dispatched one.            *)

C2_SingleProcessor == Cardinality(running) <= 1

----------------------------------------------------------------------------
(* C3: once the callback of a sub action reported the error status, no sub   *)
(* action of the same batch is dispatched any more: those popped afterwards  *)
(* are skipped.                                                              *)

----------------------------------------------------------------------------
(* C4: right after the callback of a sub action of the batch of main action  *)
(* M reported the error status, the status of the module of M is failed,     *)
(* with progress 100.                                                        *)

C4_ErrorMarksMainModule ==
    [][\A p \in running :
         CallbackStep(p, STATUS_ERROR)
             => /\ p.main \in DOMAIN modules_updates'
                /\ modules_updates'[p.main].update.failed
                /\ modules_updates'[p.main].update.progress = 100]_vars

----------------------------------------------------------------------------
(* C5: an error reported for a sub action of main action A neither marks     *)
(* failed the module of another main action, nor makes a sub action of       *)
(* another main action be skipped.                                           *)

C5_FailureContained ==
    /\ [][\A p \in running :
            CallbackStep(p, STATUS_ERROR)
                => \A m \in Modules \ {p.main} :
                       IsFailed(modules_updates', m) = IsFailed(modules_updates, m)]_vars
    /\ [][SkipStep => Last(sub_actions).id \in errored]_vars

----------------------------------------------------------------------------
(* Helpers of the properties on dependency graphs and plans *)

\* the infos a lookup callback reads
Source(callback) == IF callback = "inventory" THEN inventory ELSE catalog

\* the modules the infos of module_name name as dependencies
DepsIn(source, module_name) ==
    IF source[module_name].found THEN Range(source[module_name].deps) ELSE {}

RECURSIVE ReachableWithin(_, _, _)

ReachableWithin(source, from, n) ==
    IF n = 0 THEN from
    ELSE ReachableWithin(source, from \cup UNION {DepsIn(source, m) : m \in from}, n - 1)

\* the modules reachable from the start module, itself included
Reachable(source, start) ==
    ReachableWithin(source, {start}, Cardinality(DOMAIN source))

\* no module reachable from the start depends, directly or not, on itself
Acyclic(source, start) ==
    \A m \in Reachable(source, start) :
        \A d \in DepsIn(source, m) : m \notin Reachable(source, d)

\* the lookup of a module reachable from the start fails
LookupFails(source, start) ==
    \E m \in Reachable(source, start) : ~source[m].found

Count(list, item) == Cardinality({i \in 1..Len(list) : list[i] = item})

\* ret is the outcome of _get_module_dependencies(start, {}, callback)
Resolved == ret.call = "_get_module_dependencies"

\* the queued sub actions, oldest first
Batch(list) == Reverse(list)

Steps(list) == [i \in 1..Len(list) |-> <<list[i].action, list[i].module>>]

\* the step is the tick that marks the main action 'action' processing and plans it
PlanningStep(action) ==
    /\ ExecuteMainActionTask
    /\ ~MainActionDeferred
    /\ RemoveTerminated(main_actions) # <<>>
    /\ Last(RemoveTerminated(main_actions)) = action

----------------------------------------------------------------------------
(* C6: on an acyclic dependency graph, _get_module_dependencies returns      *)
(* every module reachable from the start exactly once, every dependency      *)
(* before the modules that depend on it, the start module last.              *)

C6_ResolvesAcyclicGraph ==
    Resolved =>
        LET start == ret.args[1]
            source == Source(ret.args[2])
            reached == Reachable(source, start)
        IN  (Acyclic(source, start) /\ ~LookupFails(source, start))
                => /\ ret.raised = ""
                   /\ ret.value # None
                   /\ LET list == ret.value[1] IN
                      /\ Range(list) = reached
                      /\ Len(list) = Cardinality(reached)
                      /\ Last(list) = start
                      /\ \A i, j \in 1..Len(list) :
                             list[j] \in DepsIn(source, list[i]) => j < i

----------------------------------------------------------------------------
(* C7: when the start module X depends on Y and Y depends on X, the call     *)
(* returns a list that holds X exactly once and Y exactly once.              *)

TwoCycle(source) ==
    /\ source["X"].found /\ source["X"].deps = <<"Y">>
    /\ source["Y"].found /\ source["Y"].deps = <<"X">>

C7_TwoCycleResolved ==
    (Resolved /\ ret.args[1] = "X" /\ TwoCycle(Source(ret.args[2])))
        => /\ ret.raised = ""
           /\ ret.value # None
           /\ Count(ret.value[1], "X") = 1
           /\ Count(ret.value[1], "Y") = 1

C7_Witness ==
    /\ Resolved
    /\ ret.args = <<"X", "inventory">>
    /\ TwoCycle(inventory)
    /\ ret.value = Some(<<"Y", "X">>)

----------------------------------------------------------------------------
(* C8: when the lookup of a module reached by the resolution fails, the      *)
(* call returns no list but raises, and the tick that plans a main action    *)
(* with such a resolution queues no sub action.                              *)

\* a resolution the planner of the main action runs meets a failing lookup
PlanLookupFails(action) ==
    IF action.action = ACTION_MODULE_INSTALL THEN LookupFails(catalog, action.module)
    ELSE IF action.action = ACTION_MODULE_UNINSTALL
    THEN LookupFails(inventory, action.module)
    ELSE LookupFails(inventory, action.module) \/ LookupFails(catalog, action.module)

C8_LookupFailurePropagates ==
    /\ (Resolved /\ LookupFails(Source(ret.args[2]), ret.args[1]))
           => ret.raised # "" /\ ret.value = None
    /\ (/\ main_actions # <<>>
        /\ Last(main_actions).processing
        /\ PlanLookupFails(Last(main_actions)))
           => sub_actions = <<>>

\* the tick planned the install of X, whose dependency is absent from the catalog
C8_Witness ==
    /\ main_actions # <<>>
    /\ Last(main_actions).processing
    /\ Last(main_actions).action = ACTION_MODULE_INSTALL
    /\ catalog["X"].found
    /\ catalog["X"].deps = <<"Y">>
    /\ ~catalog["Y"].found
    /\ sub_actions = <<>>
    /\ sub_actions_task = "none"

----------------------------------------------------------------------------
(* C9: the tick that plans the install of X queues, in the order of the      *)
(* resolved catalog dependencies (X last), an install for each module not    *)
(* installed and an update for each installed module whose catalog version   *)
(* is greater, nothing else; with the dependencies Y (not installed) and Z   *)
(* (installed, greater in the catalog) the plan is install Y, update Z,      *)
(* install X, each with the progress step 33.                                *)

RECURSIVE ExpectedInstallSteps(_, _)

ExpectedInstallSteps(dependencies, installed) ==
    IF dependencies = <<>> THEN <<>>
    ELSE LET m == dependencies[1] IN
         (IF m \notin installed THEN <<<<ACTION_MODULE_INSTALL, m>>>>
          ELSE IF CompareVersions(inventory[m].version, catalog[m].version)
          THEN <<<<ACTION_MODULE_UPDATE, m>>>>
          ELSE <<>>)
         \o ExpectedInstallSteps(Tail(dependencies), installed)

InstallScenario ==
    /\ catalog["X"].found /\ catalog["X"].deps = <<"Y", "Z">>
    /\ catalog["Y"].found /\ catalog["Y"].deps = <<>>
    /\ catalog["Z"].found /\ catalog["Z"].deps = <<>>
    /\ inventory["Z"].found
    /\ CompareVersions(inventory["Z"].version, catalog["Z"].version)

InstallScenarioSteps ==
    <<<<ACTION_MODULE_INSTALL, "Y">>, <<ACTION_MODULE_UPDATE, "Z">>,
      <<ACTION_MODULE_INSTALL, "X">>>>

C9_InstallPlan ==
    [][\A action \in Range(main_actions) :
         (PlanningStep(action) /\ action.action = ACTION_MODULE_INSTALL)
             => LET resolved == GetModuleDependencies(action.module, EmptyDict, "json")
                    installed == GetInstalledModulesNames
                    batch == Batch(sub_actions')
                IN  /\ (/\ resolved.raised = ""
                        /\ \A m \in Range(resolved.dependencies) \cap installed :
                               inventory[m].found)
                           => /\ Last(resolved.dependencies) = action.module
                              /\ Steps(batch) =
                                     ExpectedInstallSteps(resolved.dependencies, installed)
                              /\ \A i \in 1..Len(batch) : batch[i].main = action.module
                    /\ (/\ InstallScenario
                        /\ action.module = "X"
                        /\ installed = {"Z"})
                           => /\ Steps(batch) = InstallScenarioSteps
                              /\ \A i \in 1..Len(batch) : batch[i].progressstep = Some(33)]_vars

C9_Witness ==
    /\ InstallScenario
    /\ main_actions # <<>>
    /\ Last(main_actions).processing
    /\ Key(Last(main_actions)) = <<ACTION_MODULE_INSTALL, "X">>
    /\ Steps(Batch(sub_actions)) = InstallScenarioSteps
    /\ \A i \in 1..Len(sub_actions) : sub_actions[i].progressstep = Some(33)

----------------------------------------------------------------------------
(* C10: the tick that plans the uninstall of X queues an uninstall for       *)
(* exactly the modules of the installed dependency set of X (X included)     *)
(* whose loadedby modules are all in that set, each with the submitted       *)
(* extra; when the only dependency Y of X is also loaded by a module outside *)
(* the set, the plan holds X alone.                                          *)

UninstallScenario ==
    /\ inventory["X"].found /\ inventory["X"].deps = <<"Y">>
    /\ inventory["X"].loadedby = <<>>
    /\ inventory["Y"].found /\ inventory["Y"].deps = <<>>
    /\ Range(inventory["Y"].loadedby) = {"X", "W"}

C10_UninstallPlan ==
    [][\A action \in Range(main_actions) :
         (PlanningStep(action) /\ action.action = ACTION_MODULE_UNINSTALL)
             => LET resolved == GetModuleDependencies(action.module, EmptyDict, "inventory")
                    candidates == Range(resolved.dependencies)
                    batch == Batch(sub_actions')
                IN  /\ resolved.raised = ""
                           => /\ action.module \in candidates
                              /\ Range(Steps(batch)) =
                                     {<<ACTION_MODULE_UNINSTALL, m>> :
                                         m \in {c \in candidates :
                                                  Range(inventory[c].loadedby) \subseteq candidates}}
                              /\ \A i, j \in 1..Len(batch) :
                                     i # j => batch[i].module # batch[j].module
                              /\ \A i \in 1..Len(batch) :
                                     /\ batch[i].main = action.module
                                     /\ batch[i].extra = action.extra
                    /\ (UninstallScenario /\ action.module = "X")
                           => Steps(batch) = <<<<ACTION_MODULE_UNINSTALL, "X">>>>]_vars

C10_Witness ==
    /\ UninstallScenario
    /\ main_actions # <<>>
    /\ Last(main_actions).processing
    /\ Key(Last(main_actions)) = <<ACTION_MODULE_UNINSTALL, "X">>
    /\ Len(sub_actions) = 1
    /\ sub_actions[1].action = ACTION_MODULE_UNINSTALL
    /\ sub_actions[1].module = "X"
    /\ sub_actions[1].extra = Some([force |-> TRUE])

----------------------------------------------------------------------------
(* C11: the tick that plans the update of X queues, in this order, a forced  *)
(* uninstall for each module of the installed graph absent from the catalog  *)
(* graph, an install for each module of the catalog graph absent from the    *)
(* installed graph, an update for each module of both graphs whose catalog   *)
(* version is greater.  With the installed dependencies Y, Z, the catalog    *)
(* dependencies Y, Q and the version of Y unchanged, the plan is uninstall   *)
(* Z, install Q when the version of X is unchanged too, followed by update   *)
(* X when the catalog version of X is greater.                               *)

StepsOf(action, names) == [i \in 1..Len(names) |-> <<action, names[i]>>]

ExpectedUpdateSteps(old_dependencies, new_dependencies) ==
    LET Gone(m) == m \notin Range(new_dependencies)
        Added(m) == m \notin Range(old_dependencies)
        Newer(m) == /\ m \in Range(old_dependencies)
                    /\ CompareVersions(inventory[m].version, catalog[m].version)
    IN  StepsOf(ACTION_MODULE_UNINSTALL, SelectSeq(old_dependencies, Gone))
        \o StepsOf(ACTION_MODULE_INSTALL, SelectSeq(new_dependencies, Added))
        \o StepsOf(ACTION_MODULE_UPDATE, SelectSeq(new_dependencies, Newer))

UpdateScenario ==
    /\ "Q" \in DOMAIN catalog
    /\ inventory["X"].found /\ inventory["X"].deps = <<"Y", "Z">>
    /\ inventory["Y"].found /\ inventory["Y"].deps = <<>>
    /\ inventory["Z"].found /\ inventory["Z"].deps = <<>>
    /\ catalog["X"].found /\ catalog["X"].deps = <<"Y", "Q">>
    /\ catalog["Y"].found /\ catalog["Y"].deps = <<>>
    /\ catalog["Q"].found /\ catalog["Q"].deps = <<>>
    /\ catalog["Y"].version = inventory["Y"].version

UpdateScenarioSteps ==
    <<<<ACTION_MODULE_UNINSTALL, "Z">>, <<ACTION_MODULE_INSTALL, "Q">>>>

\* the rule of the update plan, for the planning tick of 'action'
UpdatePlanRule(action) ==
    LET old == GetModuleDependencies(action.module, EmptyDict, "inventory")
        new == GetModuleDependencies(action.module, EmptyDict, "json")
        batch == Batch(sub_actions')
    IN  (old.raised = "" /\ new.raised = "")
            => /\ Steps(batch) = ExpectedUpdateSteps(old.dependencies, new.dependencies)
               /\ \A i \in 1..Len(batch) :
                      /\ batch[i].main = action.module
                      /\ batch[i].extra =
                             IF batch[i].action = ACTION_MODULE_UNINSTALL
                             THEN Some([force |-> TRUE]) ELSE None

UpdatePlanningStep(action) ==
    PlanningStep(action) /\ action.action = ACTION_MODULE_UPDATE

\* the claim as stated: the scenario says nothing of the version of X
C11_UpdatePlanAsStated ==
    [][\A action \in Range(main_actions) :
         UpdatePlanningStep(action)
             => /\ UpdatePlanRule(action)
                /\ (UpdateScenario /\ action.module = "X")
                       => Steps(Batch(sub_actions')) = UpdateScenarioSteps]_vars

C11_UpdatePlan ==
    [][\A action \in Range(main_actions) :
         UpdatePlanningStep(action)
             => /\ UpdatePlanRule(action)
                /\ (UpdateScenario /\ action.module = "X")
                       => Steps(Batch(sub_actions')) =
                              IF CompareVersions(inventory["X"].version, catalog["X"].version)
                              THEN Append(UpdateScenarioSteps, <<ACTION_MODULE_UPDATE, "X">>)
                              ELSE UpdateScenarioSteps]_vars

C11_Witness ==
    /\ UpdateScenario
    /\ catalog["X"].version = inventory["X"].version
    /\ main_actions # <<>>
    /\ Last(main_actions).processing
    /\ Key(Last(main_actions)) = <<ACTION_MODULE_UPDATE, "X">>
    /\ Steps(Batch(sub_actions)) = UpdateScenarioSteps
    /\ Last(sub_actions).extra = Some([force |-> TRUE])

----------------------------------------------------------------------------
(* C12: after the tick that plans a batch of N sub actions, each sub action  *)
(* has the progress step floor(100 / N), so the steps sum up to a value      *)
(* between N * floor(100 / N) and 100; when N = 0 the tick ends normally     *)
(* with no sub action and the progress of the module of the action is 0.     *)

\* the planner of the action ends without exception
PlanSucceeds(action) == Plan(action, sub_actions).raised = ""

RECURSIVE SumOfSteps(_)

SumOfSteps(list) ==
    IF list = <<>> THEN 0 ELSE Head(list).progressstep[1] + SumOfSteps(Tail(list))

\* step = floor(100 / n), for n > 0
IsFloorOfHundredBy(step, n) == step >= 0 /\ n * step <= 100 /\ 100 < n * (step + 1)

C12_ProgressSteps ==
    [][\A action \in Range(main_actions) :
         (PlanningStep(action) /\ PlanSucceeds(action))
             => LET n == Len(sub_actions') IN
                /\ \A i \in 1..n :
                       /\ sub_actions'[i].progressstep # None
                       /\ IsFloorOfHundredBy(sub_actions'[i].progressstep[1], n)
                /\ n > 0 => LET step == sub_actions'[1].progressstep[1] IN
                            /\ n * step <= SumOfSteps(sub_actions')
                            /\ SumOfSteps(sub_actions') <= 100
                /\ n = 0 => /\ sub_actions_task' = "started"
                            /\ action.module \in DOMAIN modules_updates'
                            /\ modules_updates'[action.module].update.progress = 0]_vars

\* a planned batch of three sub actions, each with the step 33
C12_Witness ==
    /\ main_actions # <<>>
    /\ Last(main_actions).processing
    /\ sub_actions_task = "started"
    /\ Len(sub_actions) = 3
    /\ SumOfSteps(sub_actions) = 99

----------------------------------------------------------------------------
(* C13: the progress of every module status is always within 0..100, and    *)
(* while a main action stays the processing entry of the queue, from the     *)
(* tick that marks it to the tick that removes it, the progress of its       *)
(* module never decreases.                                                   *)

Progress(updates, module_name) == updates[module_name].update.progress

ProgressInRange ==
    \A m \in DOMAIN modules_updates :
        Progress(modules_updates, m) >= 0 /\ Progress(modules_updates, m) <= 100

C13_ProgressBoundedMonotonic ==
    /\ []ProgressInRange
    /\ [][\A action \in Range(main_actions) :
            (/\ action.processing
             /\ action \in Range(main_actions')
             /\ action.module \in DOMAIN modules_updates)
                => /\ action.module \in DOMAIN modules_updates'
                   /\ Progress(modules_updates', action.module)
                          >= Progress(modules_updates, action.module)]_vars

\* the install of X went through its two sub actions: 0, 50, 100
C13_Witness ==
    /\ main_actions # <<>>
    /\ Last(main_actions).processing
    /\ Key(Last(main_actions)) = <<ACTION_MODULE_INSTALL, "X">>
    /\ sub_actions = <<>>
    /\ "X" \in DOMAIN modules_updates
    /\ Progress(modules_updates, "X") = 100
    /\ ~modules_updates["X"].update.failed

----------------------------------------------------------------------------
(* C14: in every reachable state, a module status whose failed flag is true  *)
(* has the progress 100.                                                     *)

C14_FailedHasFullProgress ==
    \A m \in DOMAIN modules_updates :
        modules_updates[m].update.failed => Progress(modules_updates, m) = 100

----------------------------------------------------------------------------
(* C15: a public submission that fails validation raises and queues nothing: *)
(* install_module with a missing name or an installed module, and            *)
(* uninstall_module and update_module with a missing name or a module not    *)
(* installed, leave the main actions, the sub actions and the module         *)
(* statuses unchanged.                                                       *)

SubmittedNames == Modules \cup {""}

\* the exception the validation of the request raises, "" when it passes
ValidationError(action, module_name) ==
    IF module_name = "" THEN "MissingParameter"
    ELSE IF action = ACTION_MODULE_INSTALL /\ module_name \in DOMAIN modules_updates
    THEN "InvalidParameter"
    ELSE IF action # ACTION_MODULE_INSTALL /\ module_name \notin DOMAIN modules_updates
    THEN "InvalidParameter"
    ELSE ""

C15_InvalidSubmissionRejected ==
    [][\A action \in Actions, module_name \in SubmittedNames :
         (Submission(action, module_name) /\ ValidationError(action, module_name) # "")
             => /\ ret'.raised = ValidationError(action, module_name)
                /\ ret'.value = None
                /\ UNCHANGED <<main_actions, sub_actions, modules_updates>>]_vars

\* the install of the installed module Y was rejected while a main action was queued
C15_Witness ==
    /\ ret.call = "install_module"
    /\ ret.raised = "InvalidParameter"
    /\ main_actions # <<>>
    /\ \A i \in 1..Len(main_actions) : main_actions[i].action # ACTION_MODULE_INSTALL

----------------------------------------------------------------------------
(* C16: when the planner of the head main action raises, before or after it  *)
(* queued sub actions, the tick ends normally with the entry still marked    *)
(* processing, and the next tick of the main actions task removes the entry. *)

\* a tick of the main actions task removes the processing head
TickRemovesHead ==
    /\ ~MainActionDeferred
    /\ main_actions # <<>>
    /\ RemoveTerminated(main_actions) = Pop(main_actions)

C16_PlanningFailureCleared ==
    [][\A action \in Range(main_actions) :
         (PlanningStep(action) /\ ~PlanSucceeds(action))
             => /\ main_actions' # <<>>
                /\ Last(main_actions').id = action.id
                /\ Last(main_actions').processing
                /\ main_actions_task' = "started"
                /\ TickRemovesHead']_vars

----------------------------------------------------------------------------
(* C17: main actions are consumed in the order of their acceptance: the      *)
(* queue keeps them in that order, only the oldest one is ever marked        *)
(* processing, an entry leaves the queue only once marked, so a main action  *)
(* accepted after another is never marked while the other is in the queue.   *)

Ids(actions) == {actions[i].id : i \in 1..Len(actions)}

\* the entry is marked processing by the step
NewlyMarked(action) ==
    /\ ~action.processing
    /\ \E i \in 1..Len(main_actions') :
           main_actions'[i].id = action.id /\ main_actions'[i].processing

OldestFirst ==
    \A i, j \in 1..Len(main_actions) :
        /\ i < j => main_actions[i].id > main_actions[j].id
        /\ (main_actions[i].processing /\ i # j) => main_actions[i].id < main_actions[j].id

C17_SubmissionOrder ==
    /\ []OldestFirst
    /\ [][\A action \in Range(main_actions) :
            /\ NewlyMarked(action)
                   => \A i \in 1..Len(main_actions') : main_actions'[i].id >= action.id
            /\ action.id \notin Ids(main_actions') => action.processing]_vars

\* the second accepted main action is being processed, the first one has left
C17_Witness ==
    /\ accepted = 2
    /\ Len(main_actions) = 1
    /\ main_actions[1].id = 2
    /\ main_actions[1].processing

----------------------------------------------------------------------------
(* C18: at any time at most one sub actions Task is started and not stopped, *)
(* and at most one tick of _execute_sub_actions_task is running.             *)

\* the sub actions Tasks that are started and not stopped
StartedPollers == leaked_tasks + (IF sub_actions_task = "started" THEN 1 ELSE 0)

\* the ticks of _execute_sub_actions_task past the test of the processor
RunningTicks == sub_ticks.cur + sub_ticks.leaked + sub_ticks.dead

C18_SinglePoller == StartedPollers <= 1 /\ RunningTicks <= 1

----------------------------------------------------------------------------
(* C19: _get_modules_to_uninstall is a filter that does not depend on the    *)
(* order of the candidates: on a list without duplicates it returns the      *)
(* candidates all of whose loadedby entries are candidates, in the order of  *)
(* the list, and every permutation of the list gives the same set.           *)

Reorderings(list) == {p \in ListsOf(Range(list), Len(list)) : Len(p) = Len(list)}

\* ret is the outcome of _get_modules_to_uninstall(candidates, infos)
Pruned == ret.call = "_get_modules_to_uninstall"

\* the candidate is loaded by candidates only (its loader is "orphan" without infos)
Removable(candidate, candidates, modules_infos) ==
    Range(CandidateInfos(candidate, modules_infos).loadedby) \subseteq Range(candidates)

C19_PruneOrderIndependent ==
    Pruned =>
        LET candidates == ret.args[1]
            modules_infos == ret.args[2]
            out == ret.value[1]
        IN  /\ Range(out) = {c \in Range(candidates) : Removable(c, candidates, modules_infos)}
            /\ \A i, j \in 1..Len(out) : i # j => out[i] # out[j]
            /\ \A p \in Reorderings(candidates) :
                   Range(GetModulesToUninstall(p, modules_infos)) = Range(out)

\* Y is loaded by W, X by Y: whatever the order, X alone is kept
C19_Witness ==
    /\ Pruned
    /\ ret.args[1] = <<"Y", "X">>
    /\ DOMAIN ret.args[2] = {"X", "Y"}
    /\ ret.args[2]["Y"].loadedby = <<"W">>
    /\ ret.args[2]["X"].loadedby = <<"Y">>
    /\ ret.value = Some(<<"X">>)

----------------------------------------------------------------------------
(* C20: a tick of the main actions task removes a processing entry only when *)
(* its batch is complete: the sub actions queue is empty, the processor slot *)
(* is free and no sub action of the batch is running in a processor.         *)

\* the step is a main tick that removes the entry
RemovalStep(action) ==
    /\ ExecuteMainActionTask
    /\ action.processing
    /\ action.id \notin Ids(main_actions')

C20_RemovedWhenBatchComplete ==
    [][\A action \in Range(main_actions) :
         RemovalStep(action)
             => /\ sub_actions = <<>>
                /\ processor = None
                /\ \A p \in running : p.id # action.id]_vars

----------------------------------------------------------------------------
(* C21: a tick of the main actions task that finds the sub actions queue not *)
(* empty changes nothing: the main actions and their processing flags, the   *)
(* sub actions, every module status and the sub actions tasks stay as they   *)
(* are (the tick is one step: the mutex is held from its first statement to  *)
(* the 'finally' that releases it).                                          *)

C21_DeferredTickChangesNothing ==
    [][(ExecuteMainActionTask /\ Len(sub_actions) # 0)
          => UNCHANGED <<main_actions, sub_actions, modules_updates, sub_actions_task,
                         leaked_tasks, sub_ticks, processor>>]_vars

\* a tick is due while a batch is queued and another main action waits
C21_Witness ==
    /\ main_actions_task = "started"
    /\ Len(sub_actions) # 0
    /\ Len(main_actions) = 2
    /\ Last(main_actions).processing
    /\ ~main_actions[1].processing

----------------------------------------------------------------------------
(* C22: the sub actions of a batch leave the queue in the order the planner  *)
(* queued them, one per tick, and a sub action is handed to a processor only *)
(* once the previous sub action of its batch got its terminal callback.      *)

\* the step takes sub actions out of the queue
PopStep == Len(sub_actions') < Len(sub_actions)

C22_SubActionsInOrder ==
    [][PopStep =>
         /\ sub_actions' = Pop(sub_actions)
         /\ Dispatched \subseteq {Last(sub_actions)}
         /\ \A p \in running : Dispatched # {} => p.id # Last(sub_actions).id]_vars

----------------------------------------------------------------------------
(* C23: whenever a sub actions Task is started and not stopped, the oldest   *)
(* main action is marked processing and its batch is not finished: a sub     *)
(* action is queued or one is running in the processor.                      *)

BatchInFlight ==
    /\ Len(main_actions) > 0
    /\ Last(main_actions).processing
    /\ (Len(sub_actions) > 0 \/ processor # None)

C23_PollerOnlyWhileBatchInFlight == StartedPollers > 0 => BatchInFlight

----------------------------------------------------------------------------
(* C24: a callback with a terminal status (done or error) frees the          *)
(* processor slot, in the error case with the failed flag of the module      *)
(* being processed recorded by then; a callback with the in progress status  *)
(* leaves the slot occupied.  After a terminal callback the check of the     *)
(* next sub actions tick finds the slot free.                                *)

\* the failed flag of the module being processed, if any, is set
FailedRecorded(updates, actions) ==
    LET module_name == GetProcessingModuleName(actions) IN
    module_name # None => IsFailed(updates, module_name[1])

\* a callback of the running process p with the in progress status changes no
\* variable: the slot it leaves is the slot of the state it is delivered in
SlotOccupiedAfterProgress ==
    \A p \in running : CallbackProcessor(STATUS_PROCESSING) # None

C24_TerminalCallbackFreesSlot ==
    /\ []SlotOccupiedAfterProgress
    /\ [][\A p \in running, status \in Statuses :
            CallbackStep(p, status) =>
                /\ IsTerminalStatus(status) => processor' = None /\ ~ProcessorBusy'
                /\ status = STATUS_ERROR
                       => FailedRecorded(modules_updates', main_actions')]_vars

----------------------------------------------------------------------------
(* C25: on every dependency graph whose lookups succeed, cycles that do not  *)
(* pass through the start module included, _get_module_dependencies returns  *)
(* normally a list without duplicates: a module reached a second time is     *)
(* skipped.                                                                  *)

C25_ResolvesEveryGraph ==
    Resolved =>
        LET start == ret.args[1]
            source == Source(ret.args[2])
        IN  ~LookupFails(source, start)
                => /\ ret.raised = ""
                   /\ ret.value # None
                   /\ \A m \in Modules : Count(ret.value[1], m) <= 1

----------------------------------------------------------------------------
(* C26: every module of the list returned by _get_modules_to_uninstall has   *)
(* all the modules that load it in the returned list too: no module that     *)
(* stays installed loses a dependency.                                       *)

C26_NoNeededModuleRemoved ==
    Pruned =>
        LET modules_infos == ret.args[2]
            out == ret.value[1]
        IN  \A m \in Range(out) :
                Range(CandidateInfos(m, modules_infos).loadedby) \subseteq Range(out)

----------------------------------------------------------------------------
(* C27: a candidate without infos in the infos dict is never in the list     *)
(* returned by _get_modules_to_uninstall, and a candidate with infos is in   *)
(* it exactly when every module that loads it is a candidate.                *)

C27_MissingInfosKept ==
    Pruned =>
        LET candidates == ret.args[1]
            modules_infos == ret.args[2]
            out == ret.value[1]
        IN  \A c \in Range(candidates) :
                IF c \notin DOMAIN modules_infos
                THEN c \notin Range(out)
                ELSE c \in Range(out)
                         <=> Range(modules_infos[c].loadedby) \subseteq Range(candidates)

----------------------------------------------------------------------------
(* C28: in every reachable state _is_module_process_failed returns without   *)
(* raising: True when no main action is queued or the oldest one is not      *)
(* marked processing, else the failed flag of the status of the module of    *)
(* the oldest main action, a status that exists.                             *)

C28_IsFailedTotal ==
    LET failed == IsModuleProcessFailed(modules_updates, main_actions) IN
    /\ failed.raised = ""
    /\ IF Len(main_actions) = 0 \/ ~Last(main_actions).processing
       THEN failed.value = TRUE
       ELSE /\ Last(main_actions).module \in DOMAIN modules_updates
            /\ failed.value = modules_updates[Last(main_actions).module].update.failed

----------------------------------------------------------------------------
(* C29: with both tasks ticking and every processor delivering a terminal    *)
(* status, every queued main action is eventually marked processing and      *)
(* eventually removed, whatever the outcome of its batch or of its planning. *)
(* Stated on finite runs: no state is reached where a main action can never  *)
(* be removed.  The main tick removes nothing while a sub action is queued,  *)
(* and only a tick of a sub actions Task takes a sub action out of the queue:*)
(* with a sub action queued, a Task is started or one of its ticks is under  *)
(* way.                                                                      *)

\* sub actions are queued and no tick of a sub actions Task will ever pop them
NeverDrained ==
    /\ Len(sub_actions) > 0
    /\ StartedPollers = 0
    /\ RunningTicks = 0

C29_MainActionsProgress == Len(main_actions) > 0 => ~NeverDrained

----------------------------------------------------------------------------
(* C30: an accepted manual request is eventually taken up: once a submission *)
(* returned True, the main actions task is started or gets started, also     *)
(* with the modules update disabled, and after it was disabled and enabled   *)
(* again.  Stated on finite runs: while a main action waits, the main        *)
(* actions task is never in a state no operation starts it from.  A stopped  *)
(* Task stays: update_modules creates a Task only when there is none, and    *)
(* nothing else assigns the attribute.                                       *)

\* a main action waits to be marked processing
RequestWaiting == \E i \in 1..Len(main_actions) : ~main_actions[i].processing

C30_AcceptedRequestTakenUp == RequestWaiting => main_actions_task # "stopped"

----------------------------------------------------------------------------
(* C31: a request that failed can be submitted again: once the main action   *)
(* was removed, the same request is accepted, and when the tick plans it the *)
(* failed flag of its module is false, so that its sub actions are not       *)
(* skipped.  (Every main action of SpecRetry is the same request.)           *)

\* an earlier main action failed and is no longer queued
FailedAndRemoved == \E id \in errored : id \notin Ids(main_actions)

C31_RetryNotSuppressed ==
    /\ [][(FailedAndRemoved /\ main_actions = <<>>
              /\ \E force \in BOOLEAN : UninstallModule("Z", force))
            => ret'.value = Some(TRUE)]_vars
    /\ [][\A action \in Range(main_actions) :
            (FailedAndRemoved /\ PlanningStep(action))
                => ~IsFailed(modules_updates', action.module)]_vars

----------------------------------------------------------------------------
(* C32: a tick of a sub actions Task never pops from an empty queue: when a  *)
(* tick found the processor slot free and is about to pop, a sub action is   *)
(* queued.                                                                   *)

C32_NeverPopsEmptyQueue == RunningTicks > 0 => Len(sub_actions) > 0

----------------------------------------------------------------------------
(* C33: the mutex of the main actions is held only during the body of a      *)
(* submission or of a tick of the main actions task, and it is released on   *)
(* every way out of both (deferred tick, empty queue, planning done,         *)
(* planning exception, duplicate submission, postponed submission): at most  *)
(* one thread is between the acquire and the release, the Lock is locked     *)
(* exactly while one is, the queue of the main actions changes only in the   *)
(* step of the thread that holds the Lock, and every hold of the Lock ends   *)
(* (a thread in its body is never blocked), so no thread waits forever for   *)
(* a Lock that is never released.                                            *)

Holders == {t \in Threads : threads[t].at = "locked"}

HeldOnlyInBody ==
    /\ Cardinality(Holders) <= 1
    /\ main_actions_mutex <=> Holders # {}

EveryHoldEnds == main_actions_mutex ~> ~main_actions_mutex

QueueChangedByHolder ==
    main_actions' # main_actions =>
        \E h \in Holders : threads'[h].at = "out" /\ ~main_actions_mutex'

C33_MutexHeldOnlyInBodies ==
    /\ []HeldOnlyInBody
    /\ [][QueueChangedByHolder]_vars
    /\ EveryHoldEnds

\* a caller waits for the Lock the tick holds, after the planning of the uninstall of
\* Y raised and the last submission was left as a duplicate
C33_Witness ==
    /\ threads[MainActionsTaskThread].at = "locked"
    /\ \E c \in Callers : threads[c].at = "acquire"
    /\ ret = Returned("uninstall_module", FALSE)
    /\ main_actions # <<>>
    /\ Last(main_actions).processing
    /\ Last(main_actions).module = "Y"
    /\ sub_actions = <<>>

----------------------------------------------------------------------------
(* C34: in every reachable state at most one main action is marked          *)
(* processing, it is the oldest entry of the queue (the last of the list),  *)
(* and when the queue of the sub actions is not empty every queued sub       *)
(* action has the module of that processing entry as its main module.        *)

ProcessingEntries == {i \in 1..Len(main_actions) : main_actions[i].processing}

C34_ProcessingEntryIsOldest ==
    /\ Cardinality(ProcessingEntries) <= 1
    /\ ProcessingEntries \subseteq {Len(main_actions)}
    /\ sub_actions # <<>> =>
           /\ ProcessingEntries # {}
           /\ \A sub_action \in Range(sub_actions) :
                  sub_action.main = Last(main_actions).module

\* a second main action waits behind the processing one while its batch is queued
C34_Witness ==
    /\ Len(main_actions) = 2
    /\ main_actions[2].processing
    /\ ~main_actions[1].processing
    /\ Len(sub_actions) >= 2

====
